---- MODULE Spec2Model ----
(***************************************************************************)
(* Model of the process exporter (main.go): the Update Scheduler loop      *)
(* (updateMetrics), the Reporter loop (printMetrics), the /metrics handler *)
(* and the three gauge vectors they share, together with the operating     *)
(* system's process table and the wall clock they read.                    *)
(***************************************************************************)
EXTENDS Integers, Sequences, FiniteSets, TLC

\* time.Second * 5: the tick period of both loops and the staleness threshold.
Interval == 5

\* Bounds of the model: the last second of a run and of a long run (three
\* ticks), the largest pid, the largest sampled value, the number of requests
\* to /metrics, the seconds a run with a hanging read is followed after its
\* one tick.
MaxTime == 10
MaxTimeLong == 15
MaxPid == 1
MaxVal == 1
MaxServed == 1
MaxStall == 1

\* The process names that can be given on the command line.
Names == {"a", "b"}

\* os.Args[1:]: the ordered lists of names the program is started with.
ConfigLists == {<<"a">>, <<"a", "b">>}

None == "none"
Pids == 1..MaxPid
Vals == 1..MaxVal
Families == {"Cpuinfo", "Meminfo", "Pidinfo"}

VARIABLES
    processNames,  \* os.Args[1:]
    pcMain,        \* position of main: "main", "running" or "exited"
    now,           \* the wall clock, in seconds since start
    horizon,       \* the second at which the run is no longer followed
    procs,         \* the OS process table: pid -> name of the process, or None
    everLive,      \* the names that have been in the process table so far
    cpuUsage,      \* gauge vector Cpuinfo: name -> value, or NoEntry
    memUsage,      \* gauge vector Meminfo
    pidUsage,      \* gauge vector Pidinfo
    written,       \* per name, the families its latest write step has set
    lastUpdate,    \* map name -> time of the last successful sample (0: absent)
    mutex,         \* "free", or the function that holds it
    tickU,         \* the ticker channel of the update loop holds a tick
    tickR,         \* the ticker channel of the print loop holds a tick
    pcU,           \* position of the update goroutine
    idx,           \* index of the range loop of updateMetrics
    pid,           \* the local pid of updateMetrics
    passNo,        \* number of update passes started
    outcome,       \* per name, the branch the current pass took for it
    before,        \* the gauges and timestamps as they were when the pass began
    illTimed,      \* some tick was received late or fired during a pass
    pcR,           \* position of the print goroutine
    mfs,           \* the families gathered by printMetrics so far
    pcH,           \* position of the /metrics handler
    scrape,        \* the families gathered by the handler so far
    served,        \* promhttp_metric_handler_requests_total{code="200"}
    lastPrint      \* what the latest printMetrics pass printed, while no update
                   \* pass has begun since (NoOutput otherwise)

vars == <<processNames, pcMain, now, horizon, procs, everLive, cpuUsage,
          memUsage, pidUsage, written, lastUpdate, mutex, tickU, tickR, pcU,
          idx, pid, passNo, outcome, before, illTimed, pcR, mfs, pcH, scrape,
          served, lastPrint>>

cfgVars == <<processNames, horizon, pcMain>>
envVars == <<procs, everLive>>
histVars == <<lastPrint>>
clockVars == <<now, tickU, tickR, illTimed>>
gaugeVars == <<cpuUsage, memUsage, pidUsage, written>>
storeVars == <<cpuUsage, memUsage, pidUsage, written, lastUpdate, mutex>>
updVars == <<pcU, idx, pid, passNo, outcome, before>>
repVars == <<pcR, mfs>>
httpVars == <<pcH, scrape, served>>

\* A gauge vector has no child for a label value until WithLabelValues is
\* first called with it.
NoEntry == -1

\* GaugeVec.WithLabelValues(name).Set(val)
SetGauge(g, name, val) == [g EXCEPT ![name] = val]

\* A write step of a name sets Cpuinfo first, then Meminfo, then Pidinfo.
Begun(name) == [written EXCEPT ![name] = {"Cpuinfo"}]
Added(name, f) == [written EXCEPT ![name] = @ \cup {f}]

EmptyVec == [n \in Names |-> NoEntry]
NoFamilies == [Cpuinfo |-> EmptyVec, Meminfo |-> EmptyVec, Pidinfo |-> EmptyVec,
               written |-> [n \in Names |-> Families], requests |-> 0]
NoOutput == << >>
NoOutcome == [n \in Names |-> "none"]

Store == [Cpuinfo |-> cpuUsage, Meminfo |-> memUsage, Pidinfo |-> pidUsage,
          written |-> written]

Snapshot == [Cpuinfo |-> cpuUsage, Meminfo |-> memUsage, Pidinfo |-> pidUsage,
             ts |-> lastUpdate]

NoSnapshot == [Cpuinfo |-> EmptyVec, Meminfo |-> EmptyVec, Pidinfo |-> EmptyVec,
               ts |-> [n \in Names |-> 0]]

Min(S) == CHOOSE x \in S : \A y \in S : x <= y

\* getPID: the first process of the enumeration (ascending pid) whose name is
\* processName, 0 when there is none or when the enumeration failed.
getPID(table, enumFails, processName) ==
    LET m == {p \in Pids : table[p] = processName}
    IN  IF enumFails \/ m = {} THEN 0 ELSE Min(m)

\* The staleness check with the threshold off by one second.
IsStaleEarly(name) ==
    lastUpdate[name] = 0 \/ now - lastUpdate[name] >= Interval - 1

\* !ok || time.Since(lastUpdateTime) >= time.Second*5
IsStale(name) == lastUpdate[name] = 0 \/ now - lastUpdate[name] >= Interval

\* The pid of the one process in the table with this name, 0 when there is
\* none or more than one.
OnlyProcess(name) ==
    LET m == {p \in Pids : procs[p] = name}
    IN  IF Cardinality(m) = 1 THEN Min(m) ELSE 0

Configured == {processNames[i] : i \in 1..Len(processNames)}

\* The state of the program when main begins: init has registered the three
\* gauge vectors, which have no children, and no goroutine has been started.
Loaded ==
    /\ now = 0
    /\ procs \in [Pids -> Names \cup {None}]
    /\ everLive = {procs[p] : p \in Pids} \ {None}
    /\ cpuUsage = EmptyVec
    /\ memUsage = EmptyVec
    /\ pidUsage = EmptyVec
    /\ written = [n \in Names |-> Families]
    /\ lastUpdate = [n \in Names |-> 0]
    /\ mutex = "free"
    /\ tickU = FALSE
    /\ tickR = FALSE
    /\ pcU = "wait"
    /\ idx = 0
    /\ pid = 0
    /\ passNo = 0
    /\ outcome = NoOutcome
    /\ before = NoSnapshot
    /\ illTimed = FALSE
    /\ pcR = "wait"
    /\ mfs = NoFamilies
    /\ pcH = "idle"
    /\ scrape = NoFamilies
    /\ served = 0
    /\ lastPrint = NoOutput

\* The state of the program when main has started its goroutines.
Started == Loaded /\ pcMain = "running"

\* The program started with no name or with one, followed over two ticks.
Init ==
    /\ processNames \in {<< >>, <<"a">>}
    /\ horizon = MaxTime
    /\ pcMain = "main"
    /\ Loaded

\* The program started with no name or with two, followed over one tick and
\* the seconds after it.
InitStall ==
    /\ processNames \in {<< >>, <<"a", "b">>}
    /\ horizon = Interval + MaxStall
    /\ pcMain = "main"
    /\ Loaded

\* The program started with no name or with one, followed over one tick and
\* the seconds after it.
InitFair ==
    /\ processNames \in {<< >>, <<"a">>}
    /\ horizon = Interval + MaxStall
    /\ pcMain = "main"
    /\ Loaded

\* The program started with one name, followed over three ticks, or with
\* two, followed over two.
InitUpdate ==
    /\ processNames \in ConfigLists
    /\ horizon = IF Len(processNames) = 1 THEN MaxTimeLong ELSE MaxTime
    /\ Started

----
\* The environment: the clock and the process table.

\* A ticker sends on its channel every Interval; the channel holds one tick
\* and a tick that finds it full is dropped.
Fires(t) == t % Interval = 0

\* The clock counts seconds.  A second passes while the update goroutine waits
\* (for a tick or for the mutex) or is in a read of the operating system; the
\* steps on memory in between, a gather and a print take no time on this
\* scale, and neither of the two reads the clock.
TimePasses ==
    /\ pcU \in {"wait", "lock", "loop", "newProcess", "cpuPercent",
               "memoryPercent"}
    /\ pcR \in {"wait", "lock"}
    /\ pcH = "idle"

\* The process table is read by getPID only: a change of it anywhere else in
\* a pass is the same as a change right before the next getPID.
TableChanges ==
    /\ pcU \in {"wait", "loop"}
    /\ pcR \in {"wait", "lock"}
    /\ pcH = "idle"

\* A check of the arguments that prints the usage line and goes on.
M_UsageNoReturn ==
    /\ pcMain = "main"
    /\ Len(processNames) = 0
    /\ pcMain' = "running"
    /\ UNCHANGED <<processNames, horizon, histVars, clockVars, envVars,
                   storeVars, updVars, repVars, httpVars>>

\* if len(processNames) == 0 { fmt.Println("Usage: ..."); return }: the
\* program ends when main returns.
M_Usage ==
    /\ pcMain = "main"
    /\ Len(processNames) = 0
    /\ pcMain' = "exited"
    /\ UNCHANGED <<processNames, horizon, histVars, clockVars, envVars,
                   storeVars, updVars, repVars, httpVars>>

\* The two go statements, http.Handle and http.ListenAndServe.
M_Start ==
    /\ pcMain = "main"
    /\ Len(processNames) # 0
    /\ pcMain' = "running"
    /\ UNCHANGED <<processNames, horizon, histVars, clockVars, envVars,
                   storeVars, updVars, repVars, httpVars>>

\* The tickers exist once the goroutines run: the clock is followed from then.
ClockTick ==
    /\ pcMain = "running"
    /\ TimePasses
    /\ now < horizon
    /\ now' = now + 1
    /\ tickU' = (tickU \/ Fires(now + 1))
    /\ tickR' = (tickR \/ Fires(now + 1))
    /\ illTimed' = (illTimed \/ tickU \/ pcU = "lock"
                              \/ (Fires(now + 1) /\ pcU # "wait"))
    /\ UNCHANGED <<cfgVars, histVars, envVars, storeVars, updVars, repVars,
                   httpVars>>

ProcStart ==
    \E p \in Pids, n \in Names :
        /\ TableChanges
        /\ procs[p] = None
        /\ procs' = [procs EXCEPT ![p] = n]
        /\ everLive' = everLive \cup {n}
        /\ UNCHANGED <<cfgVars, histVars, clockVars, storeVars, updVars,
                       repVars, httpVars>>

ProcExit ==
    \E p \in Pids :
        /\ TableChanges
        /\ procs[p] # None
        /\ procs' = [procs EXCEPT ![p] = None]
        /\ UNCHANGED <<cfgVars, histVars, clockVars, everLive, storeVars,
                       updVars, repVars, httpVars>>

----
\* The update goroutine: for range time.Tick(5s) { updateMetrics(processNames) }

Name == processNames[idx]

\* The end of one iteration of the range loop of updateMetrics.
Continue ==
    /\ idx' = idx + 1
    /\ pcU' = IF idx + 1 > Len(processNames) THEN "unlock" ELSE "loop"

\* A failed read that goes on with the next name.
AbortContinue ==
    /\ outcome' = [outcome EXCEPT ![Name] = "failed"]
    /\ Continue

\* A failed read that returns with the mutex still locked.
AbortLocked ==
    /\ outcome' = [outcome EXCEPT ![Name] = "failed"]
    /\ pcU' = "wait"
    /\ UNCHANGED idx

\* The early return of a failed read: the rest of the pass is not run.
Abort ==
    /\ outcome' = [outcome EXCEPT ![Name] = "failed"]
    /\ pcU' = "unlock"
    /\ UNCHANGED idx

U_Receive ==
    /\ pcU = "wait"
    /\ tickU
    /\ tickU' = FALSE
    /\ pcU' = "lock"
    /\ UNCHANGED <<cfgVars, histVars, now, tickR, illTimed, envVars, storeVars,
                   idx, pid, passNo, outcome, before, repVars, httpVars>>

\* updateMetrics entering its pass without waiting for the mutex.
U_LockNoWait ==
    /\ pcU = "lock"
    /\ mutex' = "updateMetrics"
    /\ passNo' = passNo + 1
    /\ idx' = 1
    /\ outcome' = NoOutcome
    /\ before' = Snapshot
    /\ lastPrint' = NoOutput
    /\ pcU' = "loop"
    /\ UNCHANGED <<cfgVars, clockVars, envVars, gaugeVars, lastUpdate,
                   pid, repVars, httpVars>>

\* mutex.Lock() of updateMetrics
U_Lock ==
    /\ pcU = "lock"
    /\ mutex = "free"
    /\ mutex' = "updateMetrics"
    /\ passNo' = passNo + 1
    /\ idx' = 1
    /\ outcome' = NoOutcome
    /\ before' = Snapshot
    /\ lastPrint' = NoOutput
    /\ pcU' = "loop"
    /\ UNCHANGED <<cfgVars, clockVars, envVars, gaugeVars, lastUpdate,
                   pid, repVars, httpVars>>

\* pid := getPID(processName); if pid == 0 { ... }
U_GetPID ==
    /\ pcU = "loop"
    /\ \E enumFails \in BOOLEAN :
        /\ pid' = getPID(procs, enumFails, Name)
        /\ pcU' = IF pid' = 0 THEN "zeroCpu" ELSE "check"
    /\ UNCHANGED <<cfgVars, histVars, clockVars, envVars,
                   storeVars, idx, passNo, outcome, before, repVars, httpVars>>

U_ZeroCpu ==
    /\ pcU = "zeroCpu"
    /\ cpuUsage' = SetGauge(cpuUsage, Name, 0)
    /\ written' = Begun(Name)
    /\ pcU' = "zeroMem"
    /\ UNCHANGED <<cfgVars, histVars, clockVars, envVars, memUsage, pidUsage,
                   lastUpdate, mutex, idx, pid, passNo, outcome, before,
                   repVars, httpVars>>

U_ZeroMem ==
    /\ pcU = "zeroMem"
    /\ memUsage' = SetGauge(memUsage, Name, 0)
    /\ written' = Added(Name, "Meminfo")
    /\ pcU' = "zeroPid"
    /\ UNCHANGED <<cfgVars, histVars, clockVars, envVars, cpuUsage, pidUsage,
                   lastUpdate, mutex, idx, pid, passNo, outcome, before,
                   repVars, httpVars>>

\* The not-found branch forgetting the timestamp of the name.
U_ZeroPidForget ==
    /\ pcU = "zeroPid"
    /\ pidUsage' = SetGauge(pidUsage, Name, 0)
    /\ written' = Added(Name, "Pidinfo")
    /\ outcome' = [outcome EXCEPT ![Name] = "zeroed"]
    /\ Continue
    /\ lastUpdate' = [lastUpdate EXCEPT ![Name] = 0]
    /\ UNCHANGED <<cfgVars, histVars, clockVars, envVars, cpuUsage, memUsage,
                   mutex, pid, passNo, before, repVars, httpVars>>

U_ZeroPid ==
    /\ pcU = "zeroPid"
    /\ pidUsage' = SetGauge(pidUsage, Name, 0)
    /\ written' = Added(Name, "Pidinfo")
    /\ outcome' = [outcome EXCEPT ![Name] = "zeroed"]
    /\ Continue
    /\ UNCHANGED <<cfgVars, histVars, clockVars, envVars, cpuUsage, memUsage,
                   lastUpdate, mutex, pid, passNo, before, repVars, httpVars>>

\* lastUpdateTime, ok := lastUpdate[processName]; if !ok || ... >= 5s { ... }
U_Check ==
    /\ pcU = "check"
    /\ IF IsStale(Name)
       THEN /\ pcU' = "newProcess"
            /\ UNCHANGED <<idx, outcome>>
       ELSE /\ outcome' = [outcome EXCEPT ![Name] = "skipped"]
            /\ Continue
    /\ UNCHANGED <<cfgVars, histVars, clockVars, envVars, storeVars, pid,
                   passNo, before, repVars, httpVars>>

\* p, err := process.NewProcess(int32(pid))
U_NewProcess ==
    /\ pcU = "newProcess"
    /\ \/ Abort
       \/ pcU' = "cpuPercent" /\ UNCHANGED <<idx, outcome>>
    /\ UNCHANGED <<cfgVars, histVars, clockVars, envVars, storeVars, pid,
                   passNo, before, repVars, httpVars>>

\* cpuPercent, err := p.CPUPercent(); cpuUsage...Set(cpuPercent)
U_CPUPercent ==
    /\ pcU = "cpuPercent"
    /\ \/ Abort /\ UNCHANGED <<cpuUsage, written>>
       \/ \E cpuPercent \in Vals :
            /\ cpuUsage' = SetGauge(cpuUsage, Name, cpuPercent)
            /\ written' = Begun(Name)
            /\ pcU' = "memoryPercent"
            /\ UNCHANGED <<idx, outcome>>
    /\ UNCHANGED <<cfgVars, histVars, clockVars, envVars, memUsage, pidUsage,
                   lastUpdate, mutex, pid, passNo, before, repVars, httpVars>>

\* memoryPercent, err := p.MemoryPercent(); memUsage...Set(memoryPercent)
U_MemoryPercent ==
    /\ pcU = "memoryPercent"
    /\ \/ Abort /\ UNCHANGED <<memUsage, written>>
       \/ \E memoryPercent \in Vals :
            /\ memUsage' = SetGauge(memUsage, Name, memoryPercent)
            /\ written' = Added(Name, "Meminfo")
            /\ pcU' = "setPid"
            /\ UNCHANGED <<idx, outcome>>
    /\ UNCHANGED <<cfgVars, histVars, clockVars, envVars, cpuUsage, pidUsage,
                   lastUpdate, mutex, pid, passNo, before, repVars, httpVars>>

\* The end of a sample that does not set the pid gauge.
U_SetPidUnset ==
    /\ pcU = "setPid"
    /\ UNCHANGED pidUsage
    /\ written' = Added(Name, "Pidinfo")
    /\ lastUpdate' = [lastUpdate EXCEPT ![Name] = now]
    /\ outcome' = [outcome EXCEPT ![Name] = "sampled"]
    /\ Continue
    /\ UNCHANGED <<cfgVars, histVars, clockVars, envVars, cpuUsage, memUsage,
                   mutex, pid, passNo, before, repVars, httpVars>>

\* pidUsage...Set(float64(pid)); lastUpdate[processName] = time.Now()
U_SetPid ==
    /\ pcU = "setPid"
    /\ pidUsage' = SetGauge(pidUsage, Name, pid)
    /\ written' = Added(Name, "Pidinfo")
    /\ lastUpdate' = [lastUpdate EXCEPT ![Name] = now]
    /\ outcome' = [outcome EXCEPT ![Name] = "sampled"]
    /\ Continue
    /\ UNCHANGED <<cfgVars, histVars, clockVars, envVars, cpuUsage, memUsage,
                   mutex, pid, passNo, before, repVars, httpVars>>

\* defer mutex.Unlock() of updateMetrics; the locals of the pass are gone.
U_Unlock ==
    /\ pcU = "unlock"
    /\ mutex' = "free"
    /\ idx' = 0
    /\ pid' = 0
    /\ outcome' = NoOutcome
    /\ before' = NoSnapshot
    /\ pcU' = "wait"
    /\ UNCHANGED <<cfgVars, histVars, clockVars, envVars, gaugeVars, lastUpdate,
                   passNo, repVars, httpVars>>

----
\* Gather returns the families of the registry with the values they hold: the
\* three gauge vectors and, registered with the default registry besides them,
\* the series of the Go collector and the request counter that
\* promhttp.Handler() keeps of itself.
Gather == [Cpuinfo |-> cpuUsage, Meminfo |-> memUsage, Pidinfo |-> pidUsage,
           written |-> written, requests |-> served]

\* The gauge vectors in what a Gather returned.
GaugesOf(m) == [Cpuinfo |-> m.Cpuinfo, Meminfo |-> m.Meminfo,
                Pidinfo |-> m.Pidinfo, written |-> m.written]

\* Names of families and of labels, as the characters strings.HasPrefix reads.
FamilyName == [Cpuinfo |-> <<"C", "p", "u", "i", "n", "f", "o">>,
               Meminfo |-> <<"M", "e", "m", "i", "n", "f", "o">>,
               Pidinfo |-> <<"P", "i", "d", "i", "n", "f", "o">>]
GoGoroutines == <<"g", "o", "_", "g", "o", "r", "o", "u", "t", "i", "n", "e",
                  "s">>
GoInfo == <<"g", "o", "_", "i", "n", "f", "o">>
RequestsTotal == <<"p", "r", "o", "m", "h", "t", "t", "p", "_", "m", "e", "t",
                   "r", "i", "c", "_", "h", "a", "n", "d", "l", "e", "r", "_",
                   "r", "e", "q", "u", "e", "s", "t", "s", "_", "t", "o", "t",
                   "a", "l">>
LabelProcess == <<"p", "r", "o", "c", "e", "s", "s">>
LabelVersion == <<"v", "e", "r", "s", "i", "o", "n">>
LabelCode == <<"c", "o", "d", "e">>

\* A gauge vector lists its children in the order of their label value.
NameOrder == <<"a", "b">>

\* The series of one gauge vector in what a Gather returned.
GaugeSeries(m, f) ==
    LET all == [i \in 1..Len(NameOrder) |->
                   [family |-> FamilyName[f],
                    labels |-> <<[name |-> LabelProcess,
                                  value |-> NameOrder[i]]>>,
                    kind |-> "gauge",
                    value |-> m[f][NameOrder[i]]]]
    IN  SelectSeq(all, LAMBDA s : s.value # NoEntry)

\* Series of the Go collector: one without labels and go_info, whose one
\* label is the Go version.  Their values are not the program's.
RuntimeSeries ==
    << [family |-> GoGoroutines, labels |-> << >>, kind |-> "gauge",
        value |-> 1],
       [family |-> GoInfo,
        labels |-> <<[name |-> LabelVersion, value |-> "runtime.Version()"]>>,
        kind |-> "gauge", value |-> 1] >>

HandlerSeries(m) ==
    << [family |-> RequestsTotal,
        labels |-> <<[name |-> LabelCode, value |-> "200"]>>,
        kind |-> "counter", value |-> m.requests] >>

\* for _, mf := range mfs { for _, m := range mf.Metric { ... } }: the families
\* come sorted by name.
Series(m) ==
    GaugeSeries(m, "Cpuinfo") \o GaugeSeries(m, "Meminfo")
        \o GaugeSeries(m, "Pidinfo") \o RuntimeSeries \o HandlerSeries(m)

\* strings.HasPrefix(s, prefix)
HasPrefix(s, prefix) ==
    Len(s) >= Len(prefix) /\ SubSeq(s, 1, Len(prefix)) = prefix

GoPrefix == <<"g", "o", "_">>

\* len(m.Label) > 0 && !strings.HasPrefix(*m.Label[0].Name, "go_")
Shown(s) == Len(s.labels) > 0 /\ ~HasPrefix(s.labels[1].name, GoPrefix)

\* fmt.Printf("Metric: %s - Value: %f\n", m, m.Gauge.GetValue()): the metric
\* with its labels and its value, and the value of its gauge, 0 when it has
\* none.  The family (of) is not printed.
Line(s) == [of |-> s.family,
            metric |-> [labels |-> s.labels, kind |-> s.kind,
                        value |-> s.value],
            gauge |-> IF s.kind = "gauge" THEN s.value ELSE 0]

Separator == "=========================================="

LinesOf(ss) == [i \in 1..Len(ss) |-> Line(ss[i])]

\* What one pass of printMetrics prints of what it gathered.
Printed(m) == Append(LinesOf(SelectSeq(Series(m), Shown)), Separator)

\* The print goroutine: for range time.Tick(5s) { printMetrics() }

R_Receive ==
    /\ pcR = "wait"
    /\ tickR
    /\ tickR' = FALSE
    /\ pcR' = "lock"
    /\ UNCHANGED <<cfgVars, histVars, now, tickU, illTimed, envVars, storeVars,
                   updVars, mfs, httpVars>>

\* mutex.Lock() of printMetrics
R_Lock ==
    /\ pcR = "lock"
    /\ mutex = "free"
    /\ mutex' = "printMetrics"
    /\ pcR' = "gather"
    /\ UNCHANGED <<cfgVars, histVars, clockVars, envVars, gaugeVars, lastUpdate,
                   updVars, mfs, httpVars>>

\* mfs, err := prometheus.DefaultGatherer.Gather(); if err != nil { return }
R_Gather ==
    /\ pcR = "gather"
    /\ \/ mfs' = Gather /\ pcR' = "print"
       \/ pcR' = "unlock" /\ UNCHANGED mfs
    /\ UNCHANGED <<cfgVars, histVars, clockVars, envVars, storeVars, updVars,
                   httpVars>>

\* The loop over mfs and the separator line.
R_Print ==
    /\ pcR = "print"
    /\ lastPrint' = Printed(mfs)
    /\ pcR' = "unlock"
    /\ UNCHANGED <<cfgVars, clockVars, envVars,
                   storeVars, updVars, mfs, httpVars>>

\* defer mutex.Unlock() of printMetrics
R_Unlock ==
    /\ pcR = "unlock"
    /\ mutex' = "free"
    /\ mfs' = NoFamilies
    /\ pcR' = "wait"
    /\ UNCHANGED <<cfgVars, histVars, clockVars, envVars, gaugeVars, lastUpdate,
                   updVars, httpVars>>

----
\* promhttp.Handler(): a GET /metrics gathers the registry without the mutex.

\* A handler that takes the mutex of the two loops before it gathers.
H_GatherLocked ==
    /\ pcMain = "running"
    /\ pcH = "idle"
    /\ mutex = "free"
    /\ served < MaxServed
    /\ scrape' = Gather
    /\ pcH' = "respond"
    /\ UNCHANGED <<cfgVars, histVars, clockVars, envVars, storeVars, updVars,
                   repVars, served>>

H_Gather ==
    /\ pcMain = "running"
    /\ pcH = "idle"
    /\ served < MaxServed
    /\ scrape' = Gather
    /\ pcH' = "respond"
    /\ UNCHANGED <<cfgVars, histVars, clockVars, envVars, storeVars, updVars,
                   repVars, served>>

\* The response is written and the handler counts it.
H_Respond ==
    /\ pcH = "respond"
    /\ scrape' = NoFamilies
    /\ served' = served + 1
    /\ pcH' = "idle"
    /\ UNCHANGED <<cfgVars, histVars, clockVars, envVars, storeVars, updVars,
                   repVars>>

----
\* The three goroutines and the clock, over a process table that stays as it
\* is at the start: what a change of the table does to a pass is followed in
\* SpecUpdate, and it makes no step of the other two goroutines differ.
Next ==
    \/ M_Usage
    \/ M_Start
    \/ ClockTick
    \/ U_Receive
    \/ U_Lock
    \/ U_GetPID
    \/ U_ZeroCpu
    \/ U_ZeroMem
    \/ U_ZeroPid
    \/ U_Check
    \/ U_NewProcess
    \/ U_CPUPercent
    \/ U_MemoryPercent
    \/ U_SetPid
    \/ U_Unlock
    \/ R_Receive
    \/ R_Lock
    \/ R_Gather
    \/ R_Print
    \/ R_Unlock
    \/ H_Gather
    \/ H_Respond

Spec == Init /\ [][Next]_vars

\* The same with two names, over one tick.
SpecStall == InitStall /\ [][Next]_vars

\* The steps of the two loops but for their mutex.Lock().
UpdateSteps ==
    \/ U_Receive
    \/ U_GetPID
    \/ U_ZeroCpu
    \/ U_ZeroMem
    \/ U_ZeroPid
    \/ U_Check
    \/ U_NewProcess
    \/ U_CPUPercent
    \/ U_MemoryPercent
    \/ U_SetPid
    \/ U_Unlock

PrintSteps ==
    \/ R_Receive
    \/ R_Gather
    \/ R_Print
    \/ R_Unlock

\* The Go scheduler runs every goroutine that can run, and every read of the
\* operating system returns: a loop that can take a step takes one.  A
\* goroutine that waits in sync.Mutex.Lock is handed the mutex once it has
\* waited long (starvation mode), so a Lock that can be taken again and again
\* is taken.
Fairness ==
    /\ WF_vars(UpdateSteps)
    /\ WF_vars(PrintSteps)
    /\ SF_vars(U_Lock)
    /\ SF_vars(R_Lock)

\* The program with one name over one tick, fairly scheduled.
SpecFair == InitFair /\ [][Next]_vars /\ Fairness

\* The update goroutine alone with the clock and the process table: the other
\* two goroutines write none of its variables and only make it wait for the
\* mutex, which the clock running while it waits covers.
NextUpdate ==
    \/ ClockTick
    \/ ProcStart
    \/ ProcExit
    \/ U_Receive
    \/ U_Lock
    \/ U_GetPID
    \/ U_ZeroCpu
    \/ U_ZeroMem
    \/ U_ZeroPid
    \/ U_Check
    \/ U_NewProcess
    \/ U_CPUPercent
    \/ U_MemoryPercent
    \/ U_SetPid
    \/ U_Unlock

SpecUpdate == InitUpdate /\ [][NextUpdate]_vars

----
\* The properties.

\* The three gauges of a name, now and when the pass in progress began.
Gauges(n) == <<cpuUsage[n], memUsage[n], pidUsage[n]>>
GaugesBefore(n) == <<before.Cpuinfo[n], before.Meminfo[n], before.Pidinfo[n]>>
Zeroes == <<0, 0, 0>>

\* The body of an update pass has ended and its mutex is not yet released.
PassEnd == pcU = "unlock"

\* At least one update pass has completed and none is in progress.
AfterTick == passNo >= 1 /\ pcU \in {"wait", "lock"}

InUpdate == pcU \notin {"wait", "lock"}
InPrint == pcR \notin {"wait", "lock"}

\* The names of the processes in the process table.
Live == {procs[p] : p \in Pids} \ {None}

\* C1: at the end of a pass in which the sample read of a name failed, the
\* name's cpu, mem and pid gauges equal their values from before the pass.
LastKnownGood ==
    PassEnd => \A n \in Configured :
        outcome[n] = "failed" => Gauges(n) = GaugesBefore(n)

\* C2: no reader, neither printMetrics nor a /metrics request, reads for some
\* name gauge values that do not all come from one write step of that name.
NoTornRead ==
    /\ pcH = "respond" => \A n \in Configured : scrape.written[n] = Families
    /\ pcR = "print" => \A n \in Configured : mfs.written[n] = Families

\* C3: updateMetrics and printMetrics are never both inside their critical
\* sections, and what printMetrics gathered is the store as it is between
\* two update passes.
ReporterExclusion ==
    /\ ~(InUpdate /\ InPrint)
    /\ pcR = "print" => GaugesOf(mfs) = Store /\ ~InUpdate

\* printMetrics holds a gathered, non-empty store while an update tick waits
\* for the mutex.
ReporterExclusionWitness ==
    /\ pcR = "print"
    /\ pcU = "lock"
    /\ \E n \in Configured : mfs.Pidinfo[n] > 0

\* C4: after every completed tick, every configured name that was never the
\* name of a live process has its three gauges present and equal to 0.
NeverLiveIsZero ==
    AfterTick => \A n \in Configured \ everLive : Gauges(n) = Zeroes

\* C5: after the first completed tick every configured name has an entry in
\* each of the three gauges, all 0 while no sample of it has succeeded.
StoreComplete ==
    AfterTick => \A n \in Configured :
        /\ cpuUsage[n] # NoEntry
        /\ memUsage[n] # NoEntry
        /\ pidUsage[n] # NoEntry
        /\ lastUpdate[n] = 0 => Gauges(n) = Zeroes

\* C6: every pass gives every configured name its own result (zeroed, skipped,
\* sampled or failed), whatever the result of the other names.
PerNameIndependence ==
    PassEnd => \A n \in Configured : outcome[n] # "none"

\* C7: while every tick is received in its second and every pass ends before
\* the next tick, no pass skips a name that resolves.
SampledEveryTick ==
    PassEnd /\ ~illTimed => \A n \in Configured : outcome[n] # "skipped"

\* C8: a name is sampled only when it has no timestamp or at least Interval
\* has passed since it, and a pass that skips a name leaves the name's gauges
\* and timestamp as they were.
StalenessLaw ==
    /\ pcU \in {"newProcess", "cpuPercent", "memoryPercent", "setPid"} =>
           lastUpdate[Name] = 0 \/ now - lastUpdate[Name] >= Interval
    /\ \A n \in Configured : outcome[n] = "skipped" =>
           /\ Gauges(n) = GaugesBefore(n)
           /\ lastUpdate[n] = before.ts[n]
           /\ lastUpdate[n] # 0

\* A pass has skipped a name whose gauges hold a sample.
StalenessLawWitness ==
    /\ PassEnd
    /\ \E n \in Configured : outcome[n] = "skipped" /\ pidUsage[n] > 0

\* C9: a pass that finds a name unresolved zeroes its gauges and leaves its
\* timestamp, and a pass in which a name resolves whose gauges the last pass
\* zeroed does not skip it.
NotFoundReEligible ==
    \A n \in Configured :
        /\ outcome[n] = "zeroed" =>
               Gauges(n) = Zeroes /\ lastUpdate[n] = before.ts[n]
        /\ outcome[n] = "skipped" => GaugesBefore(n) # Zeroes

\* C10: at the end of a tick that did not find a name in the process table,
\* a name that had non-zero gauges before the tick has all three at 0.
ExitTransition ==
    PassEnd => \A n \in Configured :
        ( /\ n \notin Live
          /\ outcome[n] \in {"none", "zeroed"}
          /\ before.Cpuinfo[n] > 0
          /\ before.Meminfo[n] > 0
          /\ before.Pidinfo[n] > 0 )
        => Gauges(n) = Zeroes

\* getPID has returned 0 for a name that a process in the table has: the
\* listing of the processes has failed.
ListFailed == pcU \in {"zeroCpu", "zeroMem", "zeroPid"} /\ Name \in Live

\* A step that ends a successful sample of the name n.
Sampled(n) == lastUpdate'[n] # lastUpdate[n]

\* The name n holds a sample, its pid gauge is the pid of its one process, and
\* that process is its one process after the step too.
PidHeld(n) ==
    /\ lastUpdate[n] # 0
    /\ OnlyProcess(n) # 0
    /\ pidUsage[n] = OnlyProcess(n)
    /\ OnlyProcess(n)' = OnlyProcess(n)

\* C11: a successful sample of a name that has one process sets the name's
\* pid gauge to the pid of that process, and no step changes the gauge while
\* that process stays the name's one process.
PidCorrect ==
    [][ \A n \in Configured :
          /\ Sampled(n) /\ OnlyProcess(n) # 0 => pidUsage'[n] = OnlyProcess(n)
          /\ PidHeld(n) => pidUsage'[n] = pidUsage[n]
      ]_vars

\* C11, amended: the same, but for the steps of the not-found branch that
\* follow a failed listing of the processes.
PidCorrectWhileListed ==
    [][ \A n \in Configured :
          /\ Sampled(n) /\ OnlyProcess(n) # 0 => pidUsage'[n] = OnlyProcess(n)
          /\ PidHeld(n) /\ ~(ListFailed /\ Name = n) =>
                 pidUsage'[n] = pidUsage[n]
      ]_vars

\* A later pass has skipped or failed to sample a name that holds a sample and
\* whose pid gauge is the pid of its one process.
PidCorrectWitness ==
    /\ PassEnd
    /\ passNo >= 2
    /\ \E n \in Configured :
        /\ outcome[n] \in {"skipped", "failed"}
        /\ lastUpdate[n] # 0
        /\ OnlyProcess(n) # 0
        /\ pidUsage[n] = OnlyProcess(n)

\* The value of the handler's request counter in what a pass printed.
RequestsPrinted(out) ==
    LET i == CHOOSE i \in 1..Len(out) - 1 : out[i].of = RequestsTotal
    IN  out[i].metric.value

\* A step of printMetrics.
PrintStep == pcR' # pcR

\* The step of printMetrics that prints, taken when an earlier pass has
\* printed and no update pass has begun since.
PrintsAgain == pcR = "print" /\ pcR' = "unlock" /\ lastPrint # NoOutput

\* C12: a pass of printMetrics that follows another with no update pass
\* begun in between prints what that one printed, and no step of
\* printMetrics changes a gauge or a timestamp.
ReporterIdempotent ==
    [][ /\ PrintsAgain => lastPrint' = lastPrint
        /\ PrintStep => UNCHANGED <<cpuUsage, memUsage, pidUsage, lastUpdate>>
      ]_vars

\* What does hold of two such passes: they print the same when the handler of
\* /metrics has counted no request between their gathers.
ReporterIdempotentUnserved ==
    [][ PrintsAgain /\ mfs.requests = RequestsPrinted(lastPrint) =>
            lastPrint' = lastPrint ]_vars

\* C13: started with no process name, main returns before it starts a loop or
\* the listener: no tick is sent, no pass begins, no request is served, no
\* gauge gets an entry and nothing is printed.
UsageError ==
    Len(processNames) = 0 /\ pcMain # "main" =>
        /\ pcMain = "exited"
        /\ ~tickU /\ ~tickR
        /\ pcU = "wait" /\ pcR = "wait" /\ pcH = "idle"
        /\ passNo = 0 /\ served = 0
        /\ mutex = "free"
        /\ cpuUsage = EmptyVec /\ memUsage = EmptyVec /\ pidUsage = EmptyVec
        /\ lastUpdate = [n \in Names |-> 0]
        /\ lastPrint = NoOutput

\* main has returned on an empty list of names.
UsageErrorWitness ==
    Len(processNames) = 0 /\ pcMain = "exited"

\* The names after position i of the list.
Later(i) == {processNames[j] : j \in i + 1..Len(processNames)}

\* C14: once the sample read of a name has failed the pass is at its end, and
\* every name after it in the list has its gauges and its timestamp as they
\* were when the pass began, no branch of the pass taken for it.
FullPassAbort ==
    \A i \in 1..Len(processNames) :
        outcome[processNames[i]] = "failed" =>
            /\ PassEnd
            /\ \A n \in Later(i) :
                /\ Gauges(n) = GaugesBefore(n)
                /\ lastUpdate[n] = before.ts[n]
                /\ outcome[n] = "none"

\* The sample read of the first name has failed in a pass that began with
\* the second name holding a sample, which it still holds.
FullPassAbortWitness ==
    /\ PassEnd
    /\ Len(processNames) = 2
    /\ outcome[processNames[1]] = "failed"
    /\ before.Pidinfo[processNames[2]] > 0
    /\ pidUsage[processNames[2]] > 0

\* C15: a step changes the timestamp of a name only as the last step of a
\* sample of that name, after the lookup and both reads succeeded, with its
\* three gauges written and to the time of the step; a pass that finds the
\* name unresolved, skips it or fails to sample it leaves its timestamp.
TimestampDiscipline ==
    [][ \A n \in Names :
          /\ lastUpdate'[n] # lastUpdate[n] =>
                 /\ pcU = "setPid"
                 /\ n = Name
                 /\ pid # 0
                 /\ outcome'[n] = "sampled"
                 /\ written'[n] = Families
                 /\ lastUpdate'[n] = now
          /\ outcome'[n] \in {"zeroed", "skipped", "failed"} =>
                 lastUpdate'[n] = before'.ts[n]
      ]_vars

\* A pass has sampled its first name and found its second, sampled in an
\* earlier pass, unresolved.
TimestampDisciplineWitness ==
    /\ PassEnd
    /\ Len(processNames) = 2
    /\ outcome[processNames[1]] = "sampled"
    /\ lastUpdate[processNames[1]] > before.ts[processNames[1]]
    /\ outcome[processNames[2]] = "zeroed"
    /\ lastUpdate[processNames[2]] > 0

\* The pass has found its last name unresolved although a process in the
\* table has it: the listing of the processes made for that name has failed.
LastListFailed ==
    /\ PassEnd
    /\ outcome[processNames[Len(processNames)]] = "zeroed"
    /\ processNames[Len(processNames)] \in Live

\* C16: at the end of a pass in which a listing of the processes failed (here
\* the listing made for the last name), every configured name has its three
\* gauges at 0 and the timestamp it had when the pass began.
EnumerationFailure ==
    LastListFailed =>
        \A n \in Configured :
            Gauges(n) = Zeroes /\ lastUpdate[n] = before.ts[n]

\* The lines of an output, without the separator that ends it.
MetricLines(out) == SubSeq(out, 1, Len(out) - 1)

\* C17: what a pass of printMetrics has printed of what it gathered has no
\* line of a series whose family name begins with go_, has the line of every
\* Cpuinfo, Meminfo and Pidinfo series of a configured name that has an
\* entry, and ends with the separator line.
ReporterFiltering ==
    pcR = "unlock" /\ lastPrint = Printed(mfs) =>
        LET lines == MetricLines(lastPrint)
        IN  /\ \A i \in 1..Len(lines) : ~HasPrefix(lines[i].of, GoPrefix)
            /\ \A f \in Families, n \in Configured :
                   mfs[f][n] # NoEntry =>
                       \E i \in 1..Len(lines) :
                           /\ lines[i].of = FamilyName[f]
                           /\ lines[i].metric.labels[1].value = n
                           /\ lines[i].gauge = mfs[f][n]
            /\ lastPrint[Len(lastPrint)] = Separator

\* updateMetrics is in a read of the sample of a name, which has not returned.
InRead == pcU \in {"newProcess", "cpuPercent", "memoryPercent"}

\* C18: while a read of a sample has not returned, every later name of the
\* pass has its gauges and its timestamp as they were when the pass began,
\* printMetrics is in no pass and cannot take the mutex, and the handler of
\* /metrics can gather and can respond.
StallScope ==
    InRead =>
        /\ \A n \in Later(idx) :
            /\ Gauges(n) = GaugesBefore(n)
            /\ lastUpdate[n] = before.ts[n]
            /\ outcome[n] = "none"
        /\ mutex = "updateMetrics"
        /\ ~InPrint
        /\ ~ENABLED R_Lock
        /\ pcH = "idle" /\ served < MaxServed => ENABLED H_Gather
        /\ pcH = "respond" => ENABLED H_Respond

\* During a read of the sample of the first of two names, with the tick of
\* printMetrics waiting for the mutex, a request has gathered the store as it
\* is, the new Cpuinfo value of the name in it.
StallScopeWitness ==
    /\ pcU = "memoryPercent"
    /\ Len(processNames) = 2
    /\ idx = 1
    /\ pcR = "lock"
    /\ pcH = "respond"
    /\ GaugesOf(scrape) = Store
    /\ scrape.Cpuinfo[Name] > 0

\* The mutex is locked exactly while the function that locked it is between
\* its Lock and its deferred Unlock.
HeldByPass ==
    /\ mutex = "updateMetrics" <=> InUpdate
    /\ mutex = "printMetrics" <=> InPrint

\* C19: the mutex is locked only while a pass is in progress, whatever way
\* the pass before ended, and under fair scheduling, every read returning, a
\* tick of either loop that waits for the mutex gets its pass.
LockProgress ==
    /\ []HeldByPass
    /\ (pcU = "lock") ~> InUpdate
    /\ (pcR = "lock") ~> InPrint

\* The first update pass has ended by the early return of a failed
\* MemoryPercent, and printMetrics has taken the mutex it released.
LockProgressWitness ==
    /\ passNo = 1
    /\ pcU = "wait"
    /\ Len(processNames) = 1
    /\ cpuUsage[processNames[1]] > 0
    /\ pidUsage[processNames[1]] = NoEntry
    /\ mutex = "printMetrics"

====
